---- MODULE Spec2Model ----
(***************************************************************************)
(* Model of src/allocator.py: the inverse-volatility theme allocator.      *)
(*                                                                         *)
(* Floating-point values are modelled as exact rationals <<n, d>> in       *)
(* lowest terms with d > 0, extended with the IEEE special values the code *)
(* can produce: NaN = <<0, 0>>, +inf = <<1, 0>>, -inf = <<-1, 0>>.         *)
(* An absent cell of a pandas table is NaN.                                *)
(***************************************************************************)
EXTENDS Integers, Sequences, FiniteSets, TLC

(***************************************************************************)
(* Bounds of the model.                                                    *)
(***************************************************************************)
NumDates == 4
MaxGaps == 1
MaxThemeSize == 2
MaxMultiplier == 2

TRADING_DAYS == 252

(***************************************************************************)
(* Float arithmetic.                                                       *)
(***************************************************************************)
NaN == <<0, 0>>
Inf == <<1, 0>>
Zero == <<0, 1>>
One == <<1, 1>>

Abs(n) == IF n < 0 THEN -n ELSE n

Sign(n) == IF n > 0 THEN 1 ELSE IF n < 0 THEN -1 ELSE 0

RECURSIVE Gcd(_, _)
Gcd(a, b) == IF b = 0 THEN a ELSE Gcd(b, a % b)

Norm(n, d) ==
    IF d = 0 THEN <<Sign(n), 0>>
    ELSE LET g == Gcd(Abs(n), Abs(d))
         IN  <<Sign(d) * (n \div g), Abs(d) \div g>>

Q(n) == <<n, 1>>

IsNaN(a) == a = NaN

IsFinite(a) == a[2] # 0

QAdd(a, b) ==
    IF a[2] = 0 /\ b[2] = 0 THEN (IF a = b THEN a ELSE NaN)
    ELSE IF a[2] = 0 THEN a
    ELSE IF b[2] = 0 THEN b
    ELSE LET g == Gcd(a[2], b[2])
         IN  Norm(a[1] * (b[2] \div g) + b[1] * (a[2] \div g), (a[2] \div g) * b[2])

QNeg(a) == <<-a[1], a[2]>>

QSub(a, b) == QAdd(a, QNeg(b))

\* the product of the fractions n1/d1 and n2/d2, cancelling before multiplying
Frac(n1, d1, n2, d2) ==
    IF n1 = 0 \/ n2 = 0 \/ d1 = 0 \/ d2 = 0
    THEN Norm(Sign(n1) * Sign(n2), Sign(Abs(d1)) * Sign(Abs(d2)))
    ELSE LET g1 == Gcd(Abs(n1), Abs(d2))
             g2 == Gcd(Abs(n2), Abs(d1))
         IN  Norm((n1 \div g1) * (n2 \div g2), (d1 \div g2) * (d2 \div g1))

QMul(a, b) == Frac(a[1], a[2], b[1], b[2])

QDiv(a, b) ==
    IF IsNaN(a) \/ IsNaN(b) THEN NaN
    ELSE Frac(a[1], a[2], b[2], b[1])

\* a < b on finite values
QLess(a, b) == a[1] * b[2] < b[1] * a[2]

QLeq(a, b) == a[1] * b[2] <= b[1] * a[2]

\* smallest r in lo..hi with r * r >= n
RECURSIVE CeilSqrtIn(_, _, _)
CeilSqrtIn(n, lo, hi) ==
    IF lo >= hi THEN lo
    ELSE LET mid == (lo + hi) \div 2
         IN  IF mid * mid >= n THEN CeilSqrtIn(n, lo, mid)
             ELSE CeilSqrtIn(n, mid + 1, hi)

FloorSqrt(n) ==
    LET c == CeilSqrtIn(n, 0, 32768)
    IN  IF c * c = n THEN c ELSE c - 1

\* np.sqrt on a float: the root rounded to the nearest point of a grid of
\* 1/10; the root of a positive number stays positive, as it does for a float.
QSqrt(a) ==
    IF ~IsFinite(a) \/ a[1] < 0 THEN (IF a = Inf THEN Inf ELSE NaN)
    ELSE LET r == (FloorSqrt((a[1] * 400) \div a[2]) + 1) \div 2
         IN  Norm(IF a[1] > 0 /\ r = 0 THEN 1 ELSE r, 10)

\* mutant of RoundHalfEven: exact halves go up
RoundHalfUp(a) == (2 * a[1] + a[2]) \div (2 * a[2])

\* round to the nearest integer, exact halves to the even neighbour (np.round)
RoundHalfEven(a) ==
    LET fl == a[1] \div a[2]
        r2 == 2 * (a[1] - fl * a[2])
    IN  IF r2 < a[2] THEN fl
        ELSE IF r2 > a[2] THEN fl + 1
        ELSE IF fl % 2 = 0 THEN fl ELSE fl + 1

\* Series.round(decimals): NaN and inf pass through
Round(a, decimals) ==
    IF ~IsFinite(a) THEN a
    ELSE LET s == IF decimals = 2 THEN 100 ELSE 1
         IN  Norm(RoundHalfEven(QMul(a, Q(s))), s)

RECURSIVE SumSeq(_)
SumSeq(s) == IF s = <<>> THEN Zero ELSE QAdd(Head(s), SumSeq(Tail(s)))

\* Series.sum / mean / std skip NaN cells (skipna=True)
SkipNa(s) == SelectSeq(s, LAMBDA v : ~IsNaN(v))

Sum(s) == SumSeq(SkipNa(s))

Mean(s) ==
    LET v == SkipNa(s)
    IN  IF v = <<>> THEN NaN ELSE QDiv(SumSeq(v), Q(Len(v)))

\* sample standard deviation (ddof = 1)
Std(s) ==
    LET v == SkipNa(s)
        m == Mean(v)
        dev == [i \in 1..Len(v) |-> QMul(QSub(v[i], m), QSub(v[i], m))]
    IN  IF Len(v) < 2 THEN NaN
        ELSE QSqrt(QDiv(SumSeq(dev), Q(Len(v) - 1)))

(***************************************************************************)
(* Inputs: tickers, themes, price tables, conviction multipliers.          *)
(***************************************************************************)
Tickers == {"X", "Y", "Z"}

\* the tickers the provider returned a price column for
PriceColumns == {"X", "Y"}

ThemeNames == <<"A", "B", "C">>

PriceValues == {1, 2}

PortfolioValues == {1, 5, 10000}

FillMethods == {"pad", "none"}

Dates == 1..NumDates

Range(s) == {s[i] : i \in DOMAIN s}

\* a theme's ticker list: ordered, non-empty, without repetition
TickerLists ==
    {s \in UNION {[1..n -> Tickers] : n \in 1..MaxThemeSize} :
        \A i, j \in DOMAIN s : s[i] = s[j] => i = j}

Grouping(a, b, c) ==
    << [theme |-> ThemeNames[1], tickers |-> a],
       [theme |-> ThemeNames[2], tickers |-> b],
       [theme |-> ThemeNames[3], tickers |-> c] >>

AllGroupings == {Grouping(a, b, c) : a, b, c \in TickerLists}

DefaultGroupings ==
    { Grouping(<<"X">>, <<"Y">>, <<"Z">>),
      Grouping(<<"X", "Y">>, <<"Y">>, <<"X", "Z">>),
      Grouping(<<"Y", "X">>, <<"Z">>, <<"X">>) }

Cells == {Q(p) : p \in PriceValues} \cup {NaN}

Gaps(t) == Cardinality({<<c, d>> \in PriceColumns \X Dates : IsNaN(t[c][d])})

AllTables == {t \in [PriceColumns -> [Dates -> Cells]] : Gaps(t) <= MaxGaps}

DefaultTables ==
    { [c \in PriceColumns |-> [d \in Dates |->
          IF c = "X" THEN (IF d <= 2 THEN Q(1) ELSE Q(2))
          ELSE (IF d = 1 THEN Q(2) ELSE Q(1))]],
      [c \in PriceColumns |-> [d \in Dates |->
          IF c = "X" THEN Q(1)
          ELSE (IF d % 2 = 1 THEN Q(1) ELSE Q(2))]],
      [c \in PriceColumns |-> [d \in Dates |->
          IF c = "X" THEN (IF d = 1 THEN Q(1) ELSE Q(2))
          ELSE (IF d = NumDates THEN NaN ELSE IF d < 3 THEN Q(2) ELSE Q(1))]],
      [c \in Tickers |-> [d \in Dates |->
          IF c = "X" THEN (IF d <= 2 THEN Q(1) ELSE Q(2))
          ELSE IF c = "Y" THEN (IF d = 1 THEN Q(2) ELSE Q(1))
          ELSE (IF d % 2 = 1 THEN Q(2) ELSE Q(1))]] }

\* conviction_multipliers: None, or a dict over some of the themes
None == [none |-> TRUE, map |-> <<>>]

Dict(m) == [none |-> FALSE, map |-> m]

AllMultipliers ==
    {None} \cup {Dict(m) : m \in UNION {[S -> 1..MaxMultiplier] : S \in SUBSET Range(ThemeNames)}}

Inputs ==
    (AllTables \X DefaultGroupings \X {None})
    \cup (DefaultTables \X AllGroupings \X {None})
    \cup (DefaultTables \X DefaultGroupings \X AllMultipliers)

(***************************************************************************)
(* calculate_theme_volatility                                              *)
(***************************************************************************)
\* DataFrame.fillna(method='pad') on one column
RECURSIVE Pad(_, _)
Pad(col, d) ==
    IF d = 0 THEN NaN
    ELSE IF ~IsNaN(col[d]) THEN col[d] ELSE Pad(col, d - 1)

\* price_data.pct_change(): row d holds price[d] / price[d-1] - 1; the first
\* row has no previous price.  pandas before 3.0 pads gaps first.
PctChange(prices, fill) ==
    [c \in DOMAIN prices |-> [d \in Dates |->
        LET p(i) == IF fill = "pad" THEN Pad(prices[c], i) ELSE prices[c][i]
        IN  IF d = 1 THEN NaN ELSE QSub(QDiv(p(d), p(d - 1)), One)]]

\* the dates, ascending, whose row dropna() keeps
RECURSIVE KeptDates(_, _)
KeptDates(frame, d) ==
    IF d > NumDates THEN <<>>
    ELSE IF \E c \in DOMAIN frame : IsNaN(frame[c][d])
         THEN KeptDates(frame, d + 1)
         ELSE <<d>> \o KeptDates(frame, d + 1)

\* mutant of DropNa: dropna(how='all') drops only the rows that are all NaN
DropNaAll(frame) ==
    LET all == [c \in DOMAIN frame |-> [d \in Dates |->
                   IF \A e \in DOMAIN frame : IsNaN(frame[e][d]) THEN NaN ELSE One]]
        kept == KeptDates(all, 1)
    IN  [index |-> kept,
         val |-> [c \in DOMAIN frame |-> [i \in 1..Len(kept) |-> frame[c][kept[i]]]]]

\* DataFrame.dropna(): drops every row that holds a NaN in any column
DropNa(frame) ==
    LET kept == KeptDates(frame, 1)
    IN  [index |-> kept,
         val |-> [c \in DOMAIN frame |-> [i \in 1..Len(kept) |-> frame[c][kept[i]]]]]

Returns(prices, fill) == DropNa(PctChange(prices, fill))

ValidTickers(tickers, rets) == SelectSeq(tickers, LAMBDA t : t \in DOMAIN rets.val)

\* returns[valid_tickers].mean(axis=1)
ThemeReturns(valid, rets) ==
    [i \in 1..Len(rets.index) |-> Mean([k \in 1..Len(valid) |-> rets.val[valid[k]][i]])]

Surviving(groups, rets) ==
    {groups[i].theme : i \in {j \in DOMAIN groups : ValidTickers(groups[j].tickers, rets) # <<>>}}

TickersOf(groups, theme) ==
    groups[CHOOSE i \in DOMAIN groups : groups[i].theme = theme].tickers

\* the equal-weighted daily return series of each theme with a valid ticker
AllThemeReturns(groups, rets) ==
    [T \in Surviving(groups, rets) |->
        ThemeReturns(ValidTickers(TickersOf(groups, T), rets), rets)]

\* theme_returns.std() * np.sqrt(252)
Annualized(series) == QMul(Std(series), QSqrt(Q(TRADING_DAYS)))

ThemeVolatility(thret) == [T \in DOMAIN thret |-> Annualized(thret[T])]

(***************************************************************************)
(* calculate_weights                                                       *)
(***************************************************************************)
\* a Series over themes as the sequence of its values
Values(f, groups) ==
    LET present == SelectSeq(groups, LAMBDA g : g.theme \in DOMAIN f)
    IN  [i \in 1..Len(present) |-> f[present[i].theme]]

InverseVol(vol) == [T \in DOMAIN vol |-> QDiv(One, vol[T])]

\* "if conviction_multipliers:" is false for None and for the empty dict
ApplyConviction(inv, mult) ==
    IF mult.none \/ DOMAIN mult.map = {} THEN inv
    ELSE [T \in DOMAIN inv |->
            IF T \in DOMAIN mult.map THEN QMul(inv[T], Q(mult.map[T])) ELSE inv[T]]

Normalize(inv, groups) ==
    [T \in DOMAIN inv |-> QDiv(inv[T], Sum(Values(inv, groups)))]

\* mutant of ThemeWeights: the multipliers are applied after normalizing
ThemeWeightsConvictionLast(vol, mult, groups) ==
    ApplyConviction(Normalize(InverseVol(vol), groups), mult)

ThemeWeights(vol, mult, groups) ==
    Normalize(ApplyConviction(InverseVol(vol), mult), groups)

\* a dict of ticker weights: keys in insertion order, and their values
EmptyDict == [keys |-> <<>>, val |-> <<>>]

\* mutant of SetItem: a ticker listed again adds to its weight
SetItemAdding(dict, t, w) ==
    [keys |-> IF t \in Range(dict.keys) THEN dict.keys ELSE Append(dict.keys, t),
     val |-> (t :> IF t \in Range(dict.keys) THEN QAdd(dict.val[t], w) ELSE w) @@ dict.val]

\* ticker_weights[ticker] = ticker_weight
SetItem(dict, t, w) ==
    [keys |-> IF t \in Range(dict.keys) THEN dict.keys ELSE Append(dict.keys, t),
     val |-> (t :> w) @@ dict.val]

RECURSIVE SetAll(_, _, _, _)
SetAll(dict, tickers, k, w) ==
    IF k > Len(tickers) THEN dict
    ELSE SetAll(SetItem(dict, tickers[k], w), tickers, k + 1, w)

ThemeShare(weights, g) == QDiv(weights[g.theme], Q(Len(g.tickers)))

RECURSIVE TickerWeights(_, _, _, _)
TickerWeights(dict, groups, i, weights) ==
    IF i > Len(groups) THEN dict
    ELSE IF groups[i].theme \notin DOMAIN weights
         THEN TickerWeights(dict, groups, i + 1, weights)
         ELSE TickerWeights(SetAll(dict, groups[i].tickers, 1, ThemeShare(weights, groups[i])),
                            groups, i + 1, weights)

(***************************************************************************)
(* calculate_allocation                                                    *)
(***************************************************************************)
\* price_data.iloc[-1]
LatestPrices(prices) == [c \in DOMAIN prices |-> prices[c][NumDates]]

\* mutant of Aligned: a missing price is filled with 1
AlignedFilled(series, t) ==
    IF t \in DOMAIN series /\ ~IsNaN(series[t]) THEN series[t] ELSE One

\* a Series aligned to the allocation's index: NaN where it has no entry
Aligned(series, t) == IF t \in DOMAIN series THEN series[t] ELSE NaN

SharesToBuy(dollar, price) == Round(QDiv(dollar, price), 0)

Row(t, w, prices, pv) ==
    LET dollar == Round(QMul(w, Q(pv)), 2)
        price == Round(Aligned(LatestPrices(prices), t), 2)
    IN  [ticker |-> t,
         weight_pct |-> Round(QMul(w, Q(100)), 2),
         latest_price |-> price,
         dollar_allocation |-> dollar,
         shares |-> SharesToBuy(dollar, price)]

Rows(dict, prices, pv) ==
    [i \in 1..Len(dict.keys) |-> Row(dict.keys[i], dict.val[dict.keys[i]], prices, pv)]

\* .astype(int) raises on NaN and on inf
CastFails(rows) == \E i \in DOMAIN rows : ~IsFinite(rows[i].shares)

Orderings(n) == {p \in [1..n -> 1..n] : \A i, j \in 1..n : p[i] = p[j] => i = j}

\* sort_values('Weight %', ascending=False): pandas reverses the rows, sorts
\* them ascending and reverses the result; numpy's default sort is an
\* insertion sort up to 16 elements, so rows of equal weight keep the order
\* they had (beyond that size their order is unspecified).
\* mutant of ComesBefore: ascending=True
ComesBeforeAscending(rows, i, j) ==
    \/ QLess(rows[i].weight_pct, rows[j].weight_pct)
    \/ rows[j].weight_pct = rows[i].weight_pct /\ i < j

ComesBefore(rows, i, j) ==
    \/ QLess(rows[j].weight_pct, rows[i].weight_pct)
    \/ rows[j].weight_pct = rows[i].weight_pct /\ i < j

SortValues(rows) ==
    LET p == CHOOSE q \in Orderings(Len(rows)) :
                 \A a, b \in 1..Len(rows) : a < b => ComesBefore(rows, q[a], q[b])
    IN  [i \in 1..Len(rows) |-> rows[p[i]]]

(***************************************************************************)
(* The run: calculate_weights, then calculate_allocation.                  *)
(***************************************************************************)
VARIABLES theme_groups, price_data, conviction_multipliers, fill_method,
          pc, returns, theme_returns, theme_volatility, theme_weights,
          ticker_weights, portfolio_value, allocation

inputs == <<theme_groups, price_data, conviction_multipliers, fill_method>>

vars == <<theme_groups, price_data, conviction_multipliers, fill_method,
          pc, returns, theme_returns, theme_volatility, theme_weights,
          ticker_weights, portfolio_value, allocation>>

Init ==
    /\ \E in \in Inputs :
          /\ price_data = in[1]
          /\ theme_groups = in[2]
          /\ conviction_multipliers = in[3]
    /\ fill_method \in FillMethods
    /\ pc = "start"
    /\ returns = [index |-> <<>>, val |-> <<>>]
    /\ theme_returns = <<>>
    /\ theme_volatility = <<>>
    /\ theme_weights = <<>>
    /\ ticker_weights = EmptyDict
    /\ portfolio_value = 0
    /\ allocation = <<>>

calculate_weights ==
    /\ pc = "start"
    /\ returns' = Returns(price_data, fill_method)
    /\ theme_returns' = AllThemeReturns(theme_groups, returns')
    /\ theme_volatility' = ThemeVolatility(theme_returns')
    /\ theme_weights' = ThemeWeights(theme_volatility', conviction_multipliers, theme_groups)
    /\ ticker_weights' = TickerWeights(EmptyDict, theme_groups, 1, theme_weights')
    /\ pc' = "weighted"
    /\ UNCHANGED <<inputs, portfolio_value, allocation>>

calculate_allocation ==
    /\ pc = "weighted"
    /\ \E pv \in PortfolioValues :
          LET rows == Rows(ticker_weights, price_data, pv)
          IN  /\ portfolio_value' = pv
              /\ IF CastFails(rows)
                 THEN /\ pc' = "ValueError"
                      /\ allocation' = <<>>
                 ELSE /\ pc' = "done"
                      /\ allocation' = SortValues(rows)
    /\ UNCHANGED <<inputs, returns, theme_returns, theme_volatility, theme_weights,
                   ticker_weights>>

Next == calculate_weights \/ calculate_allocation

Spec == Init /\ [][Next]_vars

(***************************************************************************)
(* Vocabulary of the properties.                                           *)
(***************************************************************************)
Weighted == pc = "weighted"

Positive(a) == IsFinite(a) /\ a[1] > 0

\* a volatility that is a number: a non-negative real, not NaN
Defined(a) == IsFinite(a) /\ a[1] >= 0

Listed(i, t) == t \in Range(theme_groups[i].tickers)

\* theme i has no ticker with a price column
NoValidTicker(i) == Range(theme_groups[i].tickers) \cap DOMAIN price_data = {}

Keys == Range(ticker_weights.keys)

TickerWeightValues == [i \in 1..Len(ticker_weights.keys) |-> ticker_weights.val[ticker_weights.keys[i]]]

ThemeWeightValues == Values(theme_weights, theme_groups)

Max(S) == CHOOSE m \in S : \A n \in S : n <= m

\* the multiplier a theme runs with: 1 when the map has no entry for it
Multiplier(mult, T) == IF T \in DOMAIN mult.map THEN mult.map[T] ELSE 1

\* the map with theme T's multiplier set to k
Raised(mult, T, k) == Dict((T :> k) @@ mult.map)

(***************************************************************************)
(* C1: when at least one theme survives and every surviving theme has a    *)
(* positive volatility, the theme weights sum to exactly 1 over the        *)
(* surviving themes, each lies in [0,1], and a theme dropped for having no *)
(* valid ticker has no weight (so it is no part of the denominator).       *)
(***************************************************************************)
C1_ThemeWeightsSumToOne ==
    (/\ Weighted
     /\ DOMAIN theme_volatility # {}
     /\ \A T \in DOMAIN theme_volatility : Positive(theme_volatility[T]))
    => /\ SumSeq(ThemeWeightValues) = One
       /\ \A T \in DOMAIN theme_weights :
             /\ IsFinite(theme_weights[T])
             /\ QLeq(Zero, theme_weights[T])
             /\ QLeq(theme_weights[T], One)
       /\ \A i \in DOMAIN theme_groups :
             NoValidTicker(i) <=> theme_groups[i].theme \notin DOMAIN theme_weights

C1_Witness ==
    /\ Weighted
    /\ \A T \in DOMAIN theme_volatility : Positive(theme_volatility[T])
    /\ Cardinality(DOMAIN theme_weights) = 2
    /\ \E i \in DOMAIN theme_groups : NoValidTicker(i)
    /\ \E T \in DOMAIN conviction_multipliers.map : conviction_multipliers.map[T] > 1
    /\ \E T, U \in DOMAIN theme_weights : QLess(theme_weights[T], theme_weights[U])

(***************************************************************************)
(* C2: with at least two surviving themes whose volatilities are numbers,  *)
(* raising one theme's multiplier (the others fixed) strictly raises that  *)
(* theme's weight and strictly lowers another theme's weight; a theme      *)
(* without an entry in the map runs as with multiplier 1.                  *)
(***************************************************************************)
ConvictionMonotone ==
    /\ theme_weights =
          ThemeWeights(theme_volatility,
                       Dict([T \in Range(ThemeNames) |-> Multiplier(conviction_multipliers, T)]),
                       theme_groups)
    /\ \A T \in DOMAIN theme_weights :
       \A k \in (Multiplier(conviction_multipliers, T) + 1)..(MaxMultiplier + 1) :
          LET second == ThemeWeights(theme_volatility,
                                     Raised(conviction_multipliers, T, k), theme_groups)
          IN  /\ QLess(theme_weights[T], second[T])
              /\ \E U \in DOMAIN theme_weights \ {T} : QLess(second[U], theme_weights[U])

C2_Claim ==
    (/\ Weighted
     /\ Cardinality(DOMAIN theme_volatility) >= 2
     /\ \A T \in DOMAIN theme_volatility : Defined(theme_volatility[T]))
    => ConvictionMonotone

\* what the code does give: the same, for positive volatilities
ConvictionMonotoneWhenPositive ==
    (/\ Weighted
     /\ Cardinality(DOMAIN theme_volatility) >= 2
     /\ \A T \in DOMAIN theme_volatility : Positive(theme_volatility[T]))
    => ConvictionMonotone

(***************************************************************************)
(* C3: every ticker listed by a theme with a defined weight is assigned    *)
(* w(T)/k(T) for the last such theme T in the grouping's order, k(T) being *)
(* the length of T's full ticker list; a ticker without price data gets    *)
(* that weight too, and an earlier theme's assignment is overwritten.      *)
(***************************************************************************)
WeightedThemesListing(t) ==
    {i \in DOMAIN theme_groups :
        theme_groups[i].theme \in DOMAIN theme_weights /\ Listed(i, t)}

C3_TickerWeightFromLastTheme ==
    Weighted =>
        \A t \in Tickers :
            IF WeightedThemesListing(t) = {} THEN t \notin Keys
            ELSE LET g == theme_groups[Max(WeightedThemesListing(t))]
                 IN  /\ t \in Keys
                     /\ ticker_weights.val[t] = QDiv(theme_weights[g.theme], Q(Len(g.tickers)))

C3_Witness ==
    /\ Weighted
    /\ \A T \in DOMAIN theme_weights : Positive(theme_weights[T])
    /\ \E t \in Keys \ DOMAIN price_data : Positive(ticker_weights.val[t])
    /\ \E t \in Keys : \E i, j \in WeightedThemesListing(t) :
          /\ i < j
          /\ QDiv(theme_weights[theme_groups[i].theme], Q(Len(theme_groups[i].tickers)))
                # ticker_weights.val[t]

(***************************************************************************)
(* C4: the ticker weights sum to the sum of the theme weights of the       *)
(* surviving themes, also when a ticker is listed in several themes.       *)
(***************************************************************************)
C4_Claim ==
    Weighted => SumSeq(TickerWeightValues) = SumSeq(ThemeWeightValues)

(***************************************************************************)
(* C5: a theme without a valid ticker is dropped and the run goes on: it   *)
(* has no volatility, no weight and brings no ticker into the ticker       *)
(* weights; the remaining themes' weights sum to 1; a theme with a valid   *)
(* ticker is never dropped.                                                *)
(***************************************************************************)
ThemeDropping ==
    /\ \A i \in DOMAIN theme_groups :
          /\ NoValidTicker(i) <=> theme_groups[i].theme \notin DOMAIN theme_volatility
          /\ NoValidTicker(i) <=> theme_groups[i].theme \notin DOMAIN theme_weights
    /\ \A t \in Keys : \E i \in DOMAIN theme_groups : ~NoValidTicker(i) /\ Listed(i, t)
    /\ DOMAIN theme_weights # {} => SumSeq(ThemeWeightValues) = One

C5_Claim ==
    (/\ Weighted
     /\ \A T \in DOMAIN theme_volatility : Defined(theme_volatility[T]))
    => ThemeDropping

\* what the code does give: the same, for positive volatilities
ThemeDroppingWhenPositive ==
    (/\ Weighted
     /\ \A T \in DOMAIN theme_volatility : Positive(theme_volatility[T]))
    => ThemeDropping

(***************************************************************************)
(* C6: when a surviving theme's volatility is exactly 0, calculate_weights *)
(* fails and returns no weights; no theme weight is ever infinite or NaN.  *)
(***************************************************************************)
C6_Claim ==
    (/\ Weighted
     /\ \E T \in DOMAIN theme_volatility : theme_volatility[T] = Zero)
    => /\ DOMAIN theme_weights = {}
       /\ ticker_weights = EmptyDict

(***************************************************************************)
(* C7: in every row, dollar_allocation is weight x portfolio_value rounded *)
(* to 2 decimals, latest_price is the last price rounded to 2 decimals and *)
(* the share count is dollar_allocation / latest_price rounded to the      *)
(* nearest integer, exact halves rounded up.                               *)
(***************************************************************************)
\* a is an integer multiple of 1/unit at distance at most 1/(2 unit) from b
NearestOn(a, b, unit) ==
    /\ IsFinite(a)
    /\ unit % a[2] = 0
    /\ LET diff == QSub(a, b)
       IN  2 * unit * Abs(diff[1]) <= diff[2]

\* b lies exactly halfway between two multiples of 1/unit
Halfway(b, unit) == (2 * unit * b[1]) % b[2] = 0 /\ (unit * b[1]) % b[2] # 0

Quotient(r) == QDiv(r.dollar_allocation, r.latest_price)

RowAmounts(r) ==
    /\ NearestOn(r.dollar_allocation,
                 QMul(ticker_weights.val[r.ticker], Q(portfolio_value)), 100)
    /\ NearestOn(r.latest_price, price_data[r.ticker][NumDates], 100)
    /\ NearestOn(r.shares, Quotient(r), 1)

C7_Claim ==
    pc = "done" =>
        \A i \in DOMAIN allocation :
            /\ RowAmounts(allocation[i])
            /\ Halfway(Quotient(allocation[i]), 1)
                  => QLess(Quotient(allocation[i]), allocation[i].shares)

\* C7 as the code has it: exact halves go to the even neighbour
C7_SharesRoundHalfEven ==
    pc = "done" =>
        \A i \in DOMAIN allocation :
            /\ RowAmounts(allocation[i])
            /\ Halfway(Quotient(allocation[i]), 1) => allocation[i].shares[1] % 2 = 0

C7_Witness ==
    /\ pc = "done"
    /\ \E i, j \in DOMAIN allocation :
          /\ Halfway(Quotient(allocation[i]), 1)
          /\ QLess(allocation[i].shares, Quotient(allocation[i]))
          /\ ~Halfway(Quotient(allocation[j]), 1)
          /\ allocation[j].shares # Quotient(allocation[j])

(***************************************************************************)
(* C8: when a ticker with a ticker weight has no price in the final row of *)
(* the price table (no column, or an absent last cell), calculate_allocation *)
(* fails and returns no allocation table; so it does for a ticker that got *)
(* its weight from a surviving theme without having price data.            *)
(***************************************************************************)
NoLatestPrice(t) == t \notin DOMAIN price_data \/ IsNaN(price_data[t][NumDates])

SymbolRank(t) == CHOOSE i \in 1..3 : <<"X", "Y", "Z">>[i] = t

OneRowPerTicker ==
    /\ Len(allocation) = Len(ticker_weights.keys)
    /\ \A t \in Keys : \E i \in DOMAIN allocation :
          /\ allocation[i].ticker = t
          /\ allocation[i].weight_pct = Round(QMul(ticker_weights.val[t], Q(100)), 2)

C9_Claim ==
    pc = "done" =>
        /\ OneRowPerTicker
        /\ \A i, j \in DOMAIN allocation :
              i < j =>
                 \/ QLess(allocation[j].weight_pct, allocation[i].weight_pct)
                 \/ /\ allocation[j].weight_pct = allocation[i].weight_pct
                    /\ SymbolRank(allocation[i].ticker) < SymbolRank(allocation[j].ticker)

\* C9 as the code has it: descending weight percent, nothing about ties
C9_SortedByWeightDescending ==
    pc = "done" =>
        /\ OneRowPerTicker
        /\ \A i, j \in DOMAIN allocation :
              i < j => ~QLess(allocation[i].weight_pct, allocation[j].weight_pct)

C9_Witness ==
    /\ pc = "done"
    /\ Len(allocation) = 3
    /\ [i \in DOMAIN allocation |-> allocation[i].ticker] # ticker_weights.keys
    /\ \E i \in 1..2 :
          /\ allocation[i].weight_pct = allocation[i + 1].weight_pct
          /\ SymbolRank(allocation[i].ticker) > SymbolRank(allocation[i + 1].ticker)
    /\ \E i \in 1..2 : QLess(allocation[i + 1].weight_pct, allocation[i].weight_pct)

(***************************************************************************)
(* C10: a date is removed from the return table only if every ticker's     *)
(* return is absent on it; a date on which only some tickers have a return *)
(* is kept, and a theme's return on it is the mean over its valid tickers  *)
(* that have a return.                                                     *)
(***************************************************************************)
Present(c, d) == ~IsNaN(price_data[c][d])

\* ticker c has a return on date d (pandas before 3.0 pads a gap with the
\* last price before it; later versions do not)
HasReturn(c, d) ==
    /\ d >= 2
    /\ IF fill_method = "pad" THEN \E e \in 1..(d - 1) : Present(c, e)
       ELSE Present(c, d) /\ Present(c, d - 1)

Kept(d) == d \in Range(returns.index)

C10_Claim ==
    Weighted =>
        \A d \in 2..NumDates : (\E c \in DOMAIN price_data : HasReturn(c, d)) => Kept(d)

\* C10 as the code has it: a date is kept only if every ticker has a return
\* on it, and a theme's return is the mean over all its valid tickers
C10_RowDroppedOnAnyGap ==
    Weighted =>
        /\ \A d \in Dates : Kept(d) <=> \A c \in DOMAIN price_data : HasReturn(c, d)
        /\ \A i \in DOMAIN theme_groups :
              LET g == theme_groups[i]
                  valid == Range(g.tickers) \cap DOMAIN price_data
              IN  valid # {} =>
                     /\ Len(theme_returns[g.theme]) = Len(returns.index)
                     /\ \A k \in DOMAIN returns.index :
                           QMul(theme_returns[g.theme][k], Q(Cardinality(valid)))
                              = SumSeq([n \in 1..Len(ValidTickers(g.tickers, returns)) |->
                                   returns.val[ValidTickers(g.tickers, returns)[n]][k]])

C10_Witness ==
    /\ Weighted
    /\ Len(returns.index) >= 2
    /\ \E d \in 2..NumDates :
          /\ ~Kept(d)
          /\ \E c \in DOMAIN price_data : HasReturn(c, d)
          /\ \E i \in DOMAIN theme_groups :
                /\ theme_groups[i].theme \in DOMAIN theme_volatility
                /\ \A c \in Range(theme_groups[i].tickers) : c \in DOMAIN price_data /\ HasReturn(c, d)

====
